---- MODULE Spec2Model ----
(***************************************************************************)
(* The quiz session engine of hbot: QuizService (services/quiz_service.py) *)
(* and the quiz_ callback surface of handlers/student.py that drives it.   *)
(*                                                                         *)
(* Python values are modelled as follows.                                  *)
(*   dict            a function whose DOMAIN is the set of keys present    *)
(*   int i           [kind |-> "int", v |-> i]                             *)
(*   str(i)          [kind |-> "str", v |-> the decimal string of i]       *)
(*   list            [kind |-> "list", v |-> sequence of the above]        *)
(*   None            [kind |-> "none"]                                     *)
(*   percentage      an integer number of tenths (70.0 is 700)             *)
(***************************************************************************)
EXTENDS Integers, Sequences, FiniteSets, TLC

VARIABLES
    active_quizzes,  \* QuizService.active_quizzes: {user_id: quiz_data}
    db,              \* the committed rows: users, test_results, achievements
    last,            \* the last command received and what the service returned
    skipped,         \* per user, the questions skip_question passed over since start_quiz
    persisted,       \* per user, the TestResult rows committed since start_quiz
    bank,            \* the Question rows in storage, in id order
    prior            \* per user, the TestResult rows storage held at startup

vars == <<active_quizzes, db, last, skipped, persisted, bank, prior>>

----------------------------------------------------------------------------
(* Bounds of the model *)

\* longest accumulated sequence list the model lets a user build
MaxSeqLen == 2
\* most TestResult rows the model lets one user accumulate through the handlers
MaxResults == 2
\* most TestResult rows the model lets one user accumulate through direct calls
MaxServiceResults == 1
\* most TestResult rows of a user while another user holds a session or the
\* bank is edited
MaxSharedResults == 1
\* longest accumulated list of a user while another user holds a session, the
\* bank is edited or the user has completed quizzes before
MaxSharedLen == 1
\* most questions in a session whose scoring is checked on its own
MaxQuestions == 10

----------------------------------------------------------------------------
(* Program constants *)

\* start_quiz(..., question_count: int = 10)
DefaultQuestionCount == 10
\* "condition": len(user.results) >= 10
ExpertTests == 10

----------------------------------------------------------------------------
(* Python values *)

None == [kind |-> "none"]

IntV(i) == [kind |-> "int", v |-> i]

Digits == <<"0", "1", "2", "3", "4", "5", "6", "7", "8", "9">>

\* str(i) for i >= 0
RECURSIVE str(_)
str(i) == IF i < 10 THEN Digits[i + 1] ELSE str(i \div 10) \o Digits[(i % 10) + 1]

StrV(i) == [kind |-> "str", v |-> str(i)]

ListV(s) == [kind |-> "list", v |-> s]

\* a == b on ints and strs: values of different types are never equal
ScalarEq(a, b) == a.kind = b.kind /\ a.v = b.v

\* a == b on lists: same length, equal element for element
SeqEq(s, t) ==
    /\ Len(s) = Len(t)
    /\ \A i \in 1..Len(s) : ScalarEq(s[i], t[i])

\* every element of t is in s: extra elements of s are not looked at
SetEqIgnoringExtra(s, t) ==
    \A j \in 1..Len(t) : \E i \in 1..Len(s) : ScalarEq(s[i], t[j])

\* set(s) == set(t)
SetEq(s, t) ==
    /\ \A i \in 1..Len(s) : \E j \in 1..Len(t) : ScalarEq(s[i], t[j])
    /\ \A j \in 1..Len(t) : \E i \in 1..Len(s) : ScalarEq(s[i], t[j])

\* x in s
In(x, s) == \E i \in 1..Len(s) : ScalarEq(s[i], x)

\* s.remove(x): drops the first element equal to x
Remove(s, x) ==
    LET first == CHOOSE i \in 1..Len(s) :
                     /\ ScalarEq(s[i], x)
                     /\ \A j \in 1..(i - 1) : ~ScalarEq(s[j], x)
    IN  [i \in 1..(Len(s) - 1) |-> IF i < first THEN s[i] ELSE s[i + 1]]

\* d[k] = v
Put(d, k, v) == [x \in DOMAIN d \cup {k} |-> IF x = k THEN v ELSE d[x]]

\* d.clear(): every key is removed, not only k
DelAll(d, k) == [x \in {} |-> d[x]]

\* del d[k]
Del(d, k) == [x \in DOMAIN d \ {k} |-> d[x]]

\* d.get(k, default)
Get(d, k, default) == IF k \in DOMAIN d THEN d[k] ELSE default

EmptyDict == [x \in {} |-> None]

----------------------------------------------------------------------------
(* Storage: the rows the model starts from *)

\* telegram ids of the people who use the bot
Users == {1, 2}

\* Topic rows; topic 3 has no questions
Topics == {1, 2, 3, 4}

\* Question rows, in id order.  options is the number of option labels;
\* correct_answer is json.loads(q.correct_answer): [i] for single, a list of
\* ints for multiple; for sequence the list of str(i) the admin dialogue
\* stores (row 3) or the list of ints a JSON import stores (row 4).
Questions == <<
    [id |-> 1, topic_id |-> 1, question_type |-> "single", options |-> 2,
     correct_answer |-> <<IntV(1)>>],
    [id |-> 2, topic_id |-> 1, question_type |-> "multiple", options |-> 2,
     correct_answer |-> <<IntV(0)>>],
    [id |-> 3, topic_id |-> 2, question_type |-> "sequence", options |-> 2,
     correct_answer |-> <<StrV(1), StrV(0)>>],
    [id |-> 4, topic_id |-> 4, question_type |-> "sequence", options |-> 2,
     correct_answer |-> <<IntV(0), IntV(1)>>] >>

QuestionIds == {Questions[i].id : i \in 1..Len(Questions)}

\* the query without the filter on topic_id
QuestionsUnfiltered(topic_id) == {bank[i] : i \in 1..Len(bank)}

\* session.query(Question).filter(Question.topic_id == topic_id).all()
QuestionsOfTopic(topic_id) ==
    {bank[i] : i \in {j \in 1..Len(bank) : bank[j].topic_id = topic_id}}

\* how a storage call made by an operation ends
StorageOutcomes == {"ok", "user_query_error", "result_commit_error", "achievements_error"}

\* an exception left the service call
Raised(what) == [raised |-> what]

IsRaised(ret) == "raised" \in DOMAIN ret

IsSuccess(ret) == "success" \in DOMAIN ret /\ ret.success

IsFailure(ret) == "success" \in DOMAIN ret /\ ~ret.success

Failure(message) == [success |-> FALSE, message |-> message]

----------------------------------------------------------------------------
(* QuizService *)

Min(a, b) == IF a < b THEN a ELSE b

\* a sample drawn with replacement
SampleWithReplacement(population, k) == [1..k -> population]

\* random.sample(population, k): every order of every k distinct rows
Sample(population, k) ==
    {s \in [1..k -> population] : \A i, j \in 1..k : i # j => s[i] # s[j]}

\* the snapshot start_quiz takes of a Question row
Snapshot(q) ==
    [id |-> q.id, options |-> q.options, correct_answer |-> q.correct_answer,
     question_type |-> q.question_type]

\* start_quiz that keeps the answers of the session the user already has
start_quiz_keeping_answers(aq, user_id, topic_id, selected_questions) ==
    LET quiz_data ==
            [topic_id |-> topic_id,
             questions |-> [i \in 1..Len(selected_questions) |->
                               Snapshot(selected_questions[i])],
             current_question |-> 0,
             answers |-> IF user_id \in DOMAIN aq THEN aq[user_id].answers
                         ELSE EmptyDict,
             is_completed |-> FALSE]
    IN  [aq |-> Put(aq, user_id, quiz_data),
         ret |-> [success |-> TRUE, quiz_data |-> quiz_data]]

\* start_quiz with the rows chosen by random.sample given as selected_questions
start_quiz(aq, user_id, topic_id, selected_questions) ==
    LET quiz_data ==
            [topic_id |-> topic_id,
             questions |-> [i \in 1..Len(selected_questions) |->
                               Snapshot(selected_questions[i])],
             current_question |-> 0,
             answers |-> EmptyDict,
             is_completed |-> FALSE]
    IN  [aq |-> Put(aq, user_id, quiz_data),
         ret |-> [success |-> TRUE, quiz_data |-> quiz_data]]

get_current_question(aq, user_id) ==
    IF user_id \notin DOMAIN aq
    THEN None
    ELSE LET quiz_data == aq[user_id]
         IN  IF quiz_data.current_question >= Len(quiz_data.questions)
             THEN None
             ELSE quiz_data.questions[quiz_data.current_question + 1]

\* IsCorrect that reads the answer to a single question as a 1-based number
IsCorrectOneBased(question, user_answer) ==
    IF user_answer = None
    THEN FALSE
    ELSE CASE question.question_type = "single" ->
                  /\ user_answer.kind = "int"
                  /\ ScalarEq(IntV(user_answer.v - 1), question.correct_answer[1])
           [] question.question_type = "multiple" ->
                  /\ user_answer.kind = "list"
                  /\ SetEq(user_answer.v, question.correct_answer)
           [] question.question_type = "sequence" ->
                  /\ user_answer.kind = "list"
                  /\ SeqEq(user_answer.v, question.correct_answer)
           [] OTHER -> FALSE

\* the is_correct the loop of complete_quiz computes for one question
IsCorrect(question, user_answer) ==
    IF user_answer = None
    THEN FALSE
    ELSE CASE question.question_type = "single" ->
                  /\ user_answer.kind = "int"
                  /\ ScalarEq(user_answer, question.correct_answer[1])
           [] question.question_type = "multiple" ->
                  /\ user_answer.kind = "list"
                  /\ SetEq(user_answer.v, question.correct_answer)
           [] question.question_type = "sequence" ->
                  /\ user_answer.kind = "list"
                  /\ SeqEq(user_answer.v, question.correct_answer)
           [] OTHER -> FALSE

\* n / d rounded to the nearest integer, ties to even (Python's round)
RoundHalfEven(n, d) ==
    LET q == n \div d
        r == n % d
    IN  IF 2 * r < d THEN q
        ELSE IF 2 * r > d THEN q + 1
        ELSE IF q % 2 = 0 THEN q ELSE q + 1

\* the percentage cut off after the first decimal instead of rounded
PercentageTruncated(correct_count, total_questions) ==
    IF total_questions > 0
    THEN (correct_count * 1000) \div total_questions
    ELSE 0

\* round((correct_count / total_questions) * 100, 1) if total_questions > 0
\* else 0, in tenths
Percentage(correct_count, total_questions) ==
    IF total_questions > 0
    THEN RoundHalfEven(correct_count * 1000, total_questions)
    ELSE 0

\* the rules of achievements_to_check, in order
AchievementRules(d, user_id, percentage) ==
    << [name |-> "first_test", condition |-> TRUE],
       [name |-> "perfect_score", condition |-> (percentage = 1000)],
       [name |-> "history_expert",
        condition |-> (Len(d.results[user_id]) >= ExpertTests)] >>

\* NewAchievements without the test against existing_achievements
NewAchievementsIgnoringExisting(d, user_id, percentage) ==
    SelectSeq(AchievementRules(d, user_id, percentage), LAMBDA r : r.condition)

\* new_achievements: the rules that are not yet held and whose condition holds
NewAchievements(d, user_id, percentage) ==
    LET rules == AchievementRules(d, user_id, percentage)
        existing_achievements ==
            {d.achievements[user_id][i] : i \in 1..Len(d.achievements[user_id])}
    IN  SelectSeq(rules, LAMBDA r : r.name \notin existing_achievements /\ r.condition)

\* check_achievements when storage works: the new rows are committed together
check_achievements(d, user_id, percentage) ==
    IF user_id \notin d.users
    THEN [db |-> d, new_achievements |-> <<>>]
    ELSE LET new == NewAchievements(d, user_id, percentage)
             names == [i \in 1..Len(new) |-> new[i].name]
         IN  [db |-> [d EXCEPT !.achievements[user_id] = @ \o names],
              new_achievements |-> names]

\* set(user_answer) on an int raises TypeError
ScoringRaises(quiz_data) ==
    \E i \in 1..Len(quiz_data.questions) :
        LET question == quiz_data.questions[i]
            user_answer == Get(quiz_data.answers, str(question.id), None)
        IN  /\ question.question_type = "multiple"
            /\ user_answer # None
            /\ user_answer.kind # "list"

\* question_results; the id stands for the text of the question
QuestionResults(quiz_data) ==
    [i \in 1..Len(quiz_data.questions) |->
        LET question == quiz_data.questions[i]
            user_answer == Get(quiz_data.answers, str(question.id), None)
        IN  [question |-> question.id,
             user_answer |-> user_answer,
             correct_answer |-> question.correct_answer,
             is_correct |-> IsCorrect(question, user_answer)]]

CorrectCount(quiz_data) ==
    Cardinality({i \in 1..Len(quiz_data.questions) :
                    QuestionResults(quiz_data)[i].is_correct})

\* the TestResult row complete_quiz adds
TestResultRow(quiz_data) ==
    [topic_id |-> quiz_data.topic_id,
     score |-> CorrectCount(quiz_data),
     max_score |-> Len(quiz_data.questions),
     percentage |-> Percentage(CorrectCount(quiz_data), Len(quiz_data.questions))]

\* complete_quiz that never removes the session from active_quizzes
complete_quiz_keeping_session(aq, d, user_id, storage) ==
    IF user_id \notin DOMAIN aq
    THEN [aq |-> aq, db |-> d, ret |-> Failure("no_active_test")]
    ELSE
    LET quiz_data == aq[user_id]
        correct_count == CorrectCount(quiz_data)
        total_questions == Len(quiz_data.questions)
        percentage == Percentage(correct_count, total_questions)
        committed == [d EXCEPT !.results[user_id] = Append(@, TestResultRow(quiz_data))]
    IN  IF ScoringRaises(quiz_data)
        THEN [aq |-> aq, db |-> d, ret |-> Raised("TypeError")]
        ELSE IF storage = "user_query_error"
        THEN [aq |-> aq, db |-> d, ret |-> Raised("StorageError")]
        ELSE IF user_id \notin d.users
        THEN [aq |-> aq, db |-> d, ret |-> Failure("user_not_found")]
        ELSE IF storage = "result_commit_error"
        THEN [aq |-> aq, db |-> d, ret |-> Raised("StorageError")]
        ELSE IF storage = "achievements_error"
        THEN [aq |-> aq, db |-> committed, ret |-> Raised("StorageError")]
        ELSE [aq |-> aq,
              db |-> check_achievements(committed, user_id, percentage).db,
              ret |-> [success |-> TRUE,
                       correct_count |-> correct_count,
                       total_questions |-> total_questions,
                       percentage |-> percentage,
                       question_results |-> QuestionResults(quiz_data)]]

\* complete_quiz that removes the session before it writes the TestResult
complete_quiz_removing_first(aq, d, user_id, storage) ==
    IF user_id \notin DOMAIN aq
    THEN [aq |-> aq, db |-> d, ret |-> Failure("no_active_test")]
    ELSE
    LET quiz_data == aq[user_id]
        correct_count == CorrectCount(quiz_data)
        total_questions == Len(quiz_data.questions)
        percentage == Percentage(correct_count, total_questions)
        committed == [d EXCEPT !.results[user_id] = Append(@, TestResultRow(quiz_data))]
        removed == Del(aq, user_id)
    IN  IF ScoringRaises(quiz_data)
        THEN [aq |-> aq, db |-> d, ret |-> Raised("TypeError")]
        ELSE IF storage = "user_query_error"
        THEN [aq |-> removed, db |-> d, ret |-> Raised("StorageError")]
        ELSE IF user_id \notin d.users
        THEN [aq |-> removed, db |-> d, ret |-> Failure("user_not_found")]
        ELSE IF storage = "result_commit_error"
        THEN [aq |-> removed, db |-> d, ret |-> Raised("StorageError")]
        ELSE IF storage = "achievements_error"
        THEN [aq |-> removed, db |-> committed, ret |-> Raised("StorageError")]
        ELSE [aq |-> removed,
              db |-> check_achievements(committed, user_id, percentage).db,
              ret |-> [success |-> TRUE,
                       correct_count |-> correct_count,
                       total_questions |-> total_questions,
                       percentage |-> percentage,
                       question_results |-> QuestionResults(quiz_data)]]

\* complete_quiz that removes the session of a user who has no User row
complete_quiz_dropping_unknown(aq, d, user_id, storage) ==
    IF user_id \notin DOMAIN aq
    THEN [aq |-> aq, db |-> d, ret |-> Failure("no_active_test")]
    ELSE
    LET quiz_data == aq[user_id]
        correct_count == CorrectCount(quiz_data)
        total_questions == Len(quiz_data.questions)
        percentage == Percentage(correct_count, total_questions)
        committed == [d EXCEPT !.results[user_id] = Append(@, TestResultRow(quiz_data))]
    IN  IF ScoringRaises(quiz_data)
        THEN [aq |-> aq, db |-> d, ret |-> Raised("TypeError")]
        ELSE IF storage = "user_query_error"
        THEN [aq |-> aq, db |-> d, ret |-> Raised("StorageError")]
        ELSE IF user_id \notin d.users
        THEN [aq |-> Del(aq, user_id), db |-> d, ret |-> Failure("user_not_found")]
        ELSE IF storage = "result_commit_error"
        THEN [aq |-> aq, db |-> d, ret |-> Raised("StorageError")]
        ELSE IF storage = "achievements_error"
        THEN [aq |-> aq, db |-> committed, ret |-> Raised("StorageError")]
        ELSE [aq |-> Del(aq, user_id),
              db |-> check_achievements(committed, user_id, percentage).db,
              ret |-> [success |-> TRUE,
                       correct_count |-> correct_count,
                       total_questions |-> total_questions,
                       percentage |-> percentage,
                       question_results |-> QuestionResults(quiz_data)]]

\* complete_quiz; storage says which of its storage calls fails, if any
complete_quiz(aq, d, user_id, storage) ==
    IF user_id \notin DOMAIN aq
    THEN [aq |-> aq, db |-> d, ret |-> Failure("no_active_test")]
    ELSE
    LET quiz_data == aq[user_id]
        correct_count == CorrectCount(quiz_data)
        total_questions == Len(quiz_data.questions)
        percentage == Percentage(correct_count, total_questions)
        committed == [d EXCEPT !.results[user_id] = Append(@, TestResultRow(quiz_data))]
    IN  IF ScoringRaises(quiz_data)
        THEN [aq |-> aq, db |-> d, ret |-> Raised("TypeError")]
        ELSE IF storage = "user_query_error"
        THEN [aq |-> aq, db |-> d, ret |-> Raised("StorageError")]
        ELSE IF user_id \notin d.users
        THEN [aq |-> aq, db |-> d, ret |-> Failure("user_not_found")]
        ELSE IF storage = "result_commit_error"
        THEN [aq |-> aq, db |-> d, ret |-> Raised("StorageError")]
        ELSE IF storage = "achievements_error"
        THEN [aq |-> aq, db |-> committed, ret |-> Raised("StorageError")]
        ELSE [aq |-> Del(aq, user_id),
              db |-> check_achievements(committed, user_id, percentage).db,
              ret |-> [success |-> TRUE,
                       correct_count |-> correct_count,
                       total_questions |-> total_questions,
                       percentage |-> percentage,
                       question_results |-> QuestionResults(quiz_data)]]

\* AfterAdvance that marks the session completed at every advance
AfterAdvanceMarkingEarly(aq, d, user_id, storage) ==
    LET done == [aq EXCEPT ![user_id].is_completed = TRUE]
    IN  IF aq[user_id].current_question >= Len(aq[user_id].questions)
        THEN LET c == complete_quiz(done, d, user_id, storage)
             IN  [aq |-> c.aq, db |-> c.db,
                  ret |-> IF IsRaised(c.ret)
                          THEN c.ret
                          ELSE [success |-> TRUE, is_completed |-> TRUE, result |-> c.ret]]
        ELSE [aq |-> done, db |-> d, ret |-> [success |-> TRUE, is_completed |-> FALSE]]

\* what submit_answer and skip_question do once the index has advanced
AfterAdvance(aq, d, user_id, storage) ==
    IF aq[user_id].current_question >= Len(aq[user_id].questions)
    THEN LET done == [aq EXCEPT ![user_id].is_completed = TRUE]
             c == complete_quiz(done, d, user_id, storage)
         IN  [aq |-> c.aq, db |-> c.db,
              ret |-> IF IsRaised(c.ret)
                      THEN c.ret
                      ELSE [success |-> TRUE, is_completed |-> TRUE, result |-> c.ret]]
    ELSE [aq |-> aq, db |-> d, ret |-> [success |-> TRUE, is_completed |-> FALSE]]

\* submit_answer that reports success when the user has no session
submit_answer_without_session(aq, d, user_id, question_id, answer, storage) ==
    IF user_id \notin DOMAIN aq
    THEN [aq |-> aq, db |-> d, ret |-> [success |-> TRUE, is_completed |-> FALSE]]
    ELSE
    LET quiz_data == aq[user_id]
        question_index == quiz_data.current_question
    IN  IF question_index >= Len(quiz_data.questions)
        THEN [aq |-> aq, db |-> d, ret |-> Failure("questions_finished")]
        ELSE LET current_question == quiz_data.questions[question_index + 1]
                 recorded == [aq EXCEPT
                     ![user_id].answers = Put(@, str(current_question.id), answer),
                     ![user_id].current_question = @ + 1]
             IN  AfterAdvance(recorded, d, user_id, storage)

submit_answer(aq, d, user_id, question_id, answer, storage) ==
    IF user_id \notin DOMAIN aq
    THEN [aq |-> aq, db |-> d, ret |-> Failure("no_active_test")]
    ELSE
    LET quiz_data == aq[user_id]
        question_index == quiz_data.current_question
    IN  IF question_index >= Len(quiz_data.questions)
        THEN [aq |-> aq, db |-> d, ret |-> Failure("questions_finished")]
        ELSE LET current_question == quiz_data.questions[question_index + 1]
                 recorded == [aq EXCEPT
                     ![user_id].answers = Put(@, str(current_question.id), answer),
                     ![user_id].current_question = @ + 1]
             IN  AfterAdvance(recorded, d, user_id, storage)

\* skip_question without the test for exhausted questions
skip_question_unguarded(aq, d, user_id, storage) ==
    IF user_id \notin DOMAIN aq
    THEN [aq |-> aq, db |-> d, ret |-> Failure("no_active_test")]
    ELSE AfterAdvance([aq EXCEPT ![user_id].current_question = @ + 1],
                      d, user_id, storage)

skip_question(aq, d, user_id, storage) ==
    IF user_id \notin DOMAIN aq
    THEN [aq |-> aq, db |-> d, ret |-> Failure("no_active_test")]
    ELSE
    LET quiz_data == aq[user_id]
        question_index == quiz_data.current_question
    IN  IF question_index >= Len(quiz_data.questions)
        THEN [aq |-> aq, db |-> d, ret |-> Failure("questions_finished")]
        ELSE AfterAdvance([aq EXCEPT ![user_id].current_question = @ + 1],
                          d, user_id, storage)

----------------------------------------------------------------------------
(* handlers/student.py: the quiz_ callbacks *)

\* no service call was made
NoCall == [called |-> FALSE]

\* show_question: completes the quiz when there is no current question
show_question(aq, d, user_id, storage) ==
    IF get_current_question(aq, user_id) = None
    THEN complete_quiz(aq, d, user_id, storage)
    ELSE [aq |-> aq, db |-> d, ret |-> NoCall]

\* ShowNext that calls show_question after a failure result too
ShowNextAfterFailure(r, user_id, storage) ==
    IF IsRaised(r.ret) \/ (IsSuccess(r.ret) /\ r.ret.is_completed)
    THEN r
    ELSE LET shown == show_question(r.aq, r.db, user_id, storage)
         IN  [aq |-> shown.aq, db |-> shown.db, ret |-> r.ret]

\* after a service call that advanced: show the results or the next question
ShowNext(r, user_id, storage) ==
    IF IsSuccess(r.ret) /\ ~r.ret.is_completed
    THEN LET shown == show_question(r.aq, r.db, user_id, storage)
         IN  [aq |-> shown.aq, db |-> shown.db, ret |-> r.ret]
    ELSE r

\* current_question and current_question["id"] == question_id
IsCurrent(aq, user_id, question_id) ==
    LET current_question == get_current_question(aq, user_id)
    IN  current_question # None /\ current_question.id = question_id

\* the multiple branch that appends option_index whether it is selected or not
ToggleOptionAppending(aq, user_id, question_id, option_index) ==
    LET selected_options ==
            Get(aq[user_id].answers, str(question_id), ListV(<<>>)).v
    IN  [aq EXCEPT ![user_id].answers =
            Put(@, str(question_id),
                ListV(Append(selected_options, IntV(option_index))))]

\* the multiple branch of quiz_answer_: toggles option_index
ToggleOption(aq, user_id, question_id, option_index) ==
    LET selected_options ==
            Get(aq[user_id].answers, str(question_id), ListV(<<>>)).v
        toggled ==
            IF In(IntV(option_index), selected_options)
            THEN Remove(selected_options, IntV(option_index))
            ELSE Append(selected_options, IntV(option_index))
    IN  [aq EXCEPT ![user_id].answers = Put(@, str(question_id), ListV(toggled))]

\* callback quiz_answer_<question_id>_<option_index>
quiz_answer(aq, d, user_id, question_id, option_index, storage) ==
    IF ~IsCurrent(aq, user_id, question_id)
    THEN [aq |-> aq, db |-> d, ret |-> NoCall]
    ELSE LET current_question == get_current_question(aq, user_id)
         IN  CASE current_question.question_type = "single" ->
                      ShowNext(submit_answer(aq, d, user_id, question_id,
                                             IntV(option_index), storage),
                               user_id, storage)
               [] current_question.question_type = "multiple" ->
                      [aq |-> ToggleOption(aq, user_id, question_id, option_index),
                       db |-> d, ret |-> NoCall]
               [] OTHER -> [aq |-> aq, db |-> d, ret |-> NoCall]

\* quiz_seq_ that moves to the next question after the append
quiz_seq_advancing(aq, d, user_id, question_id, option_index) ==
    IF ~IsCurrent(aq, user_id, question_id)
    THEN [aq |-> aq, db |-> d, ret |-> NoCall]
    ELSE LET sequence == Get(aq[user_id].answers, str(question_id), ListV(<<>>)).v
         IN  [aq |-> [aq EXCEPT ![user_id].answers =
                         Put(@, str(question_id),
                             ListV(Append(sequence, StrV(option_index)))),
                                ![user_id].current_question = @ + 1],
              db |-> d, ret |-> NoCall]

\* callback quiz_seq_<question_id>_<option_index>
quiz_seq(aq, d, user_id, question_id, option_index) ==
    IF ~IsCurrent(aq, user_id, question_id)
    THEN [aq |-> aq, db |-> d, ret |-> NoCall]
    ELSE LET sequence == Get(aq[user_id].answers, str(question_id), ListV(<<>>)).v
         IN  [aq |-> [aq EXCEPT ![user_id].answers =
                         Put(@, str(question_id),
                             ListV(Append(sequence, StrV(option_index))))],
              db |-> d, ret |-> NoCall]

\* quiz_reset_ without the comparison of the ids
quiz_reset_unchecked(aq, d, user_id, question_id) ==
    IF get_current_question(aq, user_id) = None
    THEN [aq |-> aq, db |-> d, ret |-> NoCall]
    ELSE [aq |-> [aq EXCEPT ![user_id].answers =
                     Put(@, str(question_id), ListV(<<>>))],
          db |-> d, ret |-> NoCall]

\* callback quiz_reset_<question_id>
quiz_reset(aq, d, user_id, question_id) ==
    IF ~IsCurrent(aq, user_id, question_id)
    THEN [aq |-> aq, db |-> d, ret |-> NoCall]
    ELSE [aq |-> [aq EXCEPT ![user_id].answers =
                     Put(@, str(question_id), ListV(<<>>))],
          db |-> d, ret |-> NoCall]

\* quiz_confirm that ignores a list shorter than the options of the question
quiz_confirm_full_length(aq, d, user_id, question_id, storage) ==
    IF ~IsCurrent(aq, user_id, question_id)
    THEN [aq |-> aq, db |-> d, ret |-> NoCall]
    ELSE LET answer == Get(aq[user_id].answers, str(question_id), ListV(<<>>))
         IN  IF Len(answer.v) < get_current_question(aq, user_id).options
             THEN [aq |-> aq, db |-> d, ret |-> NoCall]
             ELSE ShowNext(submit_answer(aq, d, user_id, question_id, answer, storage),
                           user_id, storage)

\* callback quiz_confirm_<question_id>
quiz_confirm(aq, d, user_id, question_id, storage) ==
    IF ~IsCurrent(aq, user_id, question_id)
    THEN [aq |-> aq, db |-> d, ret |-> NoCall]
    ELSE LET answer == Get(aq[user_id].answers, str(question_id), ListV(<<>>))
         IN  ShowNext(submit_answer(aq, d, user_id, question_id, answer, storage),
                      user_id, storage)

\* callback quiz_skip
quiz_skip(aq, d, user_id, storage) ==
    ShowNext(skip_question(aq, d, user_id, storage), user_id, storage)

----------------------------------------------------------------------------
(* The commands the transport can deliver: the callback data that      *)
(* format_question_message puts on the keyboards of the stored rows.    *)

QuestionsOfType(types) ==
    {Questions[i] : i \in {j \in 1..Len(Questions) : Questions[j].question_type \in types}}

\* the option indexes enumerate(question["options"]) yields for some row
OptionIndexes == UNION {0..(Questions[i].options - 1) : i \in 1..Len(Questions)}

\* quiz_answer_<id>_<i>
AnswerButtons ==
    {b \in QuestionIds \X OptionIndexes :
        \E q \in QuestionsOfType({"single", "multiple"}) : q.id = b[1] /\ b[2] < q.options}

\* quiz_seq_<id>_<i>
SeqButtons ==
    {b \in QuestionIds \X OptionIndexes :
        \E q \in QuestionsOfType({"sequence"}) : q.id = b[1] /\ b[2] < q.options}

\* quiz_reset_<id>
ResetButtons == {q.id : q \in QuestionsOfType({"sequence"})}

\* quiz_confirm_<id>
ConfirmButtons == {q.id : q \in QuestionsOfType({"multiple", "sequence"})}

----------------------------------------------------------------------------
(* State machine *)

\* the users whose commands the specifications deliver
Active == {1}

Init ==
    /\ active_quizzes = EmptyDict
    /\ db = [users |-> {},
             results |-> [u \in Users |-> <<>>],
             achievements |-> [u \in Users |-> <<>>]]
    /\ last = [op |-> "none", user |-> 0, stale |-> FALSE, abandoned |-> FALSE,
               ret |-> NoCall]
    /\ skipped = [u \in Users |-> {}]
    /\ persisted = [u \in Users |-> 0]
    /\ bank = Questions
    /\ prior = [u \in Users |-> 0]

\* the direct calls of the methods of QuizService
ServiceOps == {"start_quiz", "submit_answer", "skip_question", "complete_quiz"}

\* the cap on the TestResult rows of a user for the command op
ResultsCap(op) == IF op \in ServiceOps THEN MaxServiceResults ELSE MaxResults

\* the commands that run start_quiz
StartOps == {"quiz_start", "start_quiz"}

\* start_quiz is called for a user whose session holds answers
Abandons(op, user_id) ==
    /\ op \in StartOps
    /\ user_id \in DOMAIN active_quizzes
    /\ active_quizzes[user_id].answers # EmptyDict

\* the state and the record of the command after an operation returned r
Becomes(r, op, user_id, stale) ==
    /\ Len(r.db.results[user_id]) <= prior[user_id] + ResultsCap(op)
    /\ active_quizzes' = r.aq
    /\ db' = r.db
    /\ last' = [op |-> op, user |-> user_id, stale |-> stale,
                abandoned |-> Abandons(op, user_id), ret |-> r.ret]
    /\ persisted' =
          [persisted EXCEPT ![user_id] =
              IF op \in StartOps /\ IsSuccess(r.ret)
              THEN 0
              ELSE @ + Len(r.db.results[user_id]) - Len(db.results[user_id])]
    /\ UNCHANGED <<bank, prior>>

\* the command refers to a question that is not the one at current_question
Stale(user_id, question_id) ==
    \/ user_id \notin DOMAIN active_quizzes
    \/ active_quizzes[user_id].current_question >= Len(active_quizzes[user_id].questions)
    \/ active_quizzes[user_id].questions[
           active_quizzes[user_id].current_question + 1].id # question_id

\* skipped after skip_question ran for user_id
SkippedAfterSkip(user_id) ==
    LET current_question == get_current_question(active_quizzes, user_id)
    IN  IF current_question = None
        THEN skipped
        ELSE [skipped EXCEPT ![user_id] = @ \cup {current_question.id}]

\* check_and_create_user: the role buttons create the User row
RegisterUser(user_id) ==
    /\ user_id \notin db.users
    /\ db' = [db EXCEPT !.users = @ \cup {user_id}]
    /\ last' = [op |-> "register", user |-> user_id, stale |-> FALSE,
                abandoned |-> FALSE, ret |-> NoCall]
    /\ UNCHANGED <<active_quizzes, skipped, persisted, bank, prior>>

\* QuizService.start_quiz(user_id, topic_id, question_count)
StartQuizOp(op, user_id, topic_id, question_count) ==
    /\ Len(db.results[user_id]) < prior[user_id] + ResultsCap(op)
    /\ \E query \in {"ok", "question_query_error"} :
        LET questions == QuestionsOfTopic(topic_id)
            same(ret) == [aq |-> active_quizzes, db |-> db, ret |-> ret]
        IN  IF query # "ok"
            THEN /\ Becomes(same(Raised("StorageError")), op, user_id, FALSE)
                 /\ UNCHANGED skipped
            ELSE IF questions = {}
            THEN /\ Becomes(same(Failure("no_questions")), op, user_id, FALSE)
                 /\ UNCHANGED skipped
            ELSE \E selected_questions \in
                        Sample(questions, Min(question_count, Cardinality(questions))) :
                    LET r == start_quiz(active_quizzes, user_id, topic_id,
                                        selected_questions)
                    IN  /\ Becomes([aq |-> r.aq, db |-> db, ret |-> r.ret],
                                   op, user_id, FALSE)
                        /\ skipped' = [skipped EXCEPT ![user_id] = {}]

\* callback quiz_start_<topic_id> (quiz_start_random picks any topic)
QuizStart(user_id, topic_id) ==
    StartQuizOp("quiz_start", user_id, topic_id, DefaultQuestionCount)

QuizAnswer(user_id, question_id, option_index) ==
    /\ \E storage \in StorageOutcomes :
        Becomes(quiz_answer(active_quizzes, db, user_id, question_id, option_index, storage),
                "quiz_answer", user_id, Stale(user_id, question_id))
    /\ UNCHANGED skipped

QuizSeq(user_id, question_id, option_index) ==
    /\ user_id \in DOMAIN active_quizzes =>
          Len(Get(active_quizzes[user_id].answers, str(question_id), ListV(<<>>)).v)
              < MaxSeqLen
    /\ Becomes(quiz_seq(active_quizzes, db, user_id, question_id, option_index),
               "quiz_seq", user_id, Stale(user_id, question_id))
    /\ UNCHANGED skipped

QuizReset(user_id, question_id) ==
    /\ Becomes(quiz_reset(active_quizzes, db, user_id, question_id),
               "quiz_reset", user_id, Stale(user_id, question_id))
    /\ UNCHANGED skipped

QuizConfirm(user_id, question_id) ==
    /\ \E storage \in StorageOutcomes :
        Becomes(quiz_confirm(active_quizzes, db, user_id, question_id, storage),
                "quiz_confirm", user_id, Stale(user_id, question_id))
    /\ UNCHANGED skipped

\* shown is the question whose keyboard carried the pressed skip button
QuizSkip(user_id, shown) ==
    /\ \E storage \in StorageOutcomes :
        Becomes(quiz_skip(active_quizzes, db, user_id, storage),
                "quiz_skip", user_id, Stale(user_id, shown))
    /\ skipped' = SkippedAfterSkip(user_id)

\* the quiz_ callbacks of handle_test_button, and registration
Next ==
    \E user_id \in Active :
        \/ RegisterUser(user_id)
        \/ \E topic_id \in Topics : QuizStart(user_id, topic_id)
        \/ \E b \in AnswerButtons : QuizAnswer(user_id, b[1], b[2])
        \/ \E b \in SeqButtons : QuizSeq(user_id, b[1], b[2])
        \/ \E question_id \in ResetButtons : QuizReset(user_id, question_id)
        \/ \E question_id \in ConfirmButtons : QuizConfirm(user_id, question_id)
        \/ \E shown \in QuestionIds : QuizSkip(user_id, shown)

Spec == Init /\ [][Next]_vars

----------------------------------------------------------------------------
(* The methods of QuizService called directly *)

\* the question_count values start_quiz is called with
QuestionCounts == {1, DefaultQuestionCount}

\* the answer values the callers of submit_answer pass
AnswerValues ==
    {IntV(0), IntV(1), ListV(<<>>), ListV(<<IntV(0)>>), ListV(<<StrV(1), StrV(0)>>)}

StartQuiz(user_id, topic_id, question_count) ==
    StartQuizOp("start_quiz", user_id, topic_id, question_count)

SubmitAnswer(user_id, question_id, answer) ==
    /\ \E storage \in StorageOutcomes :
        Becomes(submit_answer(active_quizzes, db, user_id, question_id, answer, storage),
                "submit_answer", user_id, Stale(user_id, question_id))
    /\ UNCHANGED skipped

SkipQuestion(user_id) ==
    /\ \E storage \in StorageOutcomes :
        Becomes(skip_question(active_quizzes, db, user_id, storage),
                "skip_question", user_id, FALSE)
    /\ skipped' = SkippedAfterSkip(user_id)

CompleteQuiz(user_id) ==
    /\ \E storage \in StorageOutcomes :
        Becomes(complete_quiz(active_quizzes, db, user_id, storage),
                "complete_quiz", user_id, FALSE)
    /\ UNCHANGED skipped

NextService ==
    \E user_id \in Active :
        \/ RegisterUser(user_id)
        \/ \E topic_id \in Topics, question_count \in QuestionCounts :
               StartQuiz(user_id, topic_id, question_count)
        \/ \E question_id \in QuestionIds, answer \in AnswerValues :
               SubmitAnswer(user_id, question_id, answer)
        \/ SkipQuestion(user_id)
        \/ CompleteQuiz(user_id)

SpecService == Init /\ [][NextService]_vars

----------------------------------------------------------------------------
(* complete_quiz on sessions of up to MaxQuestions answered questions *)

\* a Question row of a topic of single-choice questions with two options
ScoringQuestion(i) ==
    [id |-> i, topic_id |-> 1, question_type |-> "single", options |-> 2,
     correct_answer |-> <<IntV(1)>>]

\* the session of a user who answered all n questions, picked[i] being the
\* option picked for question i, as submit_answer leaves it for complete_quiz
ScoringSession(n, picked) ==
    [topic_id |-> 1,
     questions |-> [i \in 1..n |-> Snapshot(ScoringQuestion(i))],
     current_question |-> n,
     answers |-> [k \in {str(i) : i \in 1..n} |->
                     IntV(picked[CHOOSE i \in 1..n : str(i) = k])],
     is_completed |-> (n > 0)]

ScoringSessions ==
    UNION {{ScoringSession(n, picked) : picked \in [1..n -> {0, 1}]} :
              n \in 0..MaxQuestions}

InitScoring ==
    /\ active_quizzes \in {[u \in Active |-> quiz_data] : quiz_data \in ScoringSessions}
    /\ db = [users |-> Active,
             results |-> [u \in Users |-> <<>>],
             achievements |-> [u \in Users |-> <<>>]]
    /\ last = [op |-> "none", user |-> 0, stale |-> FALSE, abandoned |-> FALSE,
               ret |-> NoCall]
    /\ skipped = [u \in Users |-> {}]
    /\ persisted = [u \in Users |-> 0]
    /\ bank = Questions
    /\ prior = [u \in Users |-> 0]

NextScoring == \E user_id \in Active : CompleteQuiz(user_id)

SpecScoring == InitScoring /\ [][NextScoring]_vars

----------------------------------------------------------------------------
(* The handlers serving one user while another user holds a session *)

\* the user who holds a session and sends no command
Bystander == CHOOSE u \in Users : u \notin Active

\* sessions the bystander can hold: just started on topic 1; with question 1
\* answered and an option of question 2 toggled; on topic 2 with one option
\* appended; exhausted by a skip whose completion failed on storage
BystanderSessions ==
    LET u == Bystander
        d == [users |-> {u},
              results |-> [x \in Users |-> <<>>],
              achievements |-> [x \in Users |-> <<>>]]
        started == start_quiz(EmptyDict, u, 1, <<Questions[1], Questions[2]>>).aq
        answered == quiz_answer(started, d, u, 1, 0, "ok").aq
        toggled == quiz_answer(answered, d, u, 2, 0, "ok").aq
        sequence == quiz_seq(start_quiz(EmptyDict, u, 2, <<Questions[3]>>).aq,
                             d, u, 3, 1).aq
        failed == quiz_skip(toggled, d, u, "result_commit_error").aq
    IN  {started[u], toggled[u], sequence[u], failed[u]}

InitShared ==
    /\ active_quizzes \in
           {[u \in {Bystander} |-> quiz_data] : quiz_data \in BystanderSessions}
    /\ db = [users |-> {Bystander},
             results |-> [u \in Users |-> <<>>],
             achievements |-> [u \in Users |-> <<>>]]
    /\ last = [op |-> "none", user |-> 0, stale |-> FALSE, abandoned |-> FALSE,
               ret |-> NoCall]
    /\ skipped = [u \in Users |-> {}]
    /\ persisted = [u \in Users |-> 0]
    /\ bank = Questions
    /\ prior = [u \in Users |-> 0]

\* the rows and the accumulated lists stay within the bounds
SharedBounds ==
    /\ \A u \in Users : Len(db.results[u]) <= MaxSharedResults
    /\ \A u \in DOMAIN active_quizzes :
           \A k \in DOMAIN active_quizzes[u].answers :
               active_quizzes[u].answers[k].kind = "list"
                   => Len(active_quizzes[u].answers[k].v) <= MaxSharedLen

\* the step stays within the bounds
SharedStep ==
    /\ SharedBounds'
    /\ last'.op \in StartOps => Len(db.results[last'.user]) < MaxSharedResults

NextShared ==
    \E user_id \in Active :
        \/ (RegisterUser(user_id)) /\ SharedStep
        \/ (\E topic_id \in Topics : QuizStart(user_id, topic_id)) /\ SharedStep
        \/ (\E b \in AnswerButtons : QuizAnswer(user_id, b[1], b[2])) /\ SharedStep
        \/ (\E b \in SeqButtons : QuizSeq(user_id, b[1], b[2])) /\ SharedStep
        \/ (\E question_id \in ResetButtons : QuizReset(user_id, question_id)) /\ SharedStep
        \/ (\E question_id \in ConfirmButtons : QuizConfirm(user_id, question_id)) /\ SharedStep
        \/ (\E shown \in QuestionIds : QuizSkip(user_id, shown)) /\ SharedStep

SpecShared == InitShared /\ [][NextShared]_vars

----------------------------------------------------------------------------
(* The handlers serving a user while an administrator edits the bank *)

\* the rows an import rewrites
EditedRows == {1}

\* the row with the option indexes of its correct_answer rewritten
EditedRow(q) ==
    [q EXCEPT !.correct_answer =
        [j \in 1..Len(q.correct_answer) |->
            LET x == q.correct_answer[j]
                v == IF x.kind = "int" THEN x.v ELSE CHOOSE i \in 0..9 : str(i) = x.v
            IN  IF x.kind = "int" THEN IntV(q.options - 1 - v)
                ELSE StrV(q.options - 1 - v)]]

\* an edit that also rewrites the snapshots the sessions hold of the row
EditQuestionThroughSessions(i) ==
    /\ bank' = [bank EXCEPT ![i] = EditedRow(@)]
    /\ active_quizzes' =
           [u \in DOMAIN active_quizzes |->
               [active_quizzes[u] EXCEPT !.questions =
                   [k \in 1..Len(@) |->
                       IF @[k].id = bank[i].id THEN Snapshot(bank'[i]) ELSE @[k]]]]
    /\ last' = [op |-> "edit_question", user |-> 0, stale |-> FALSE,
                abandoned |-> FALSE, ret |-> NoCall]
    /\ UNCHANGED <<db, skipped, persisted, prior>>

\* import_questions_from_json: an existing Question row is updated
EditQuestion(i) ==
    /\ bank' = [bank EXCEPT ![i] = EditedRow(@)]
    /\ last' = [op |-> "edit_question", user |-> 0, stale |-> FALSE,
                abandoned |-> FALSE, ret |-> NoCall]
    /\ UNCHANGED <<active_quizzes, db, skipped, persisted, prior>>

NextBank ==
    \/ NextShared
    \/ \E i \in EditedRows : EditQuestion(i)

SpecBank == Init /\ [][NextBank]_vars

----------------------------------------------------------------------------
(* The handlers serving a user who has completed quizzes before *)

\* the numbers of TestResult rows the user starts with
PriorResultCounts == {ExpertTests - 2, ExpertTests - 1}

\* a TestResult row of an earlier completion: one of two answers correct
PriorResult == [topic_id |-> 1, score |-> 1, max_score |-> 2,
                percentage |-> Percentage(1, 2)]

InitExpert ==
    /\ active_quizzes = EmptyDict
    /\ \E n \in PriorResultCounts :
           /\ db = [users |-> Active,
                    results |-> [u \in Users |->
                                    IF u \in Active THEN [i \in 1..n |-> PriorResult]
                                    ELSE <<>>],
                    achievements |-> [u \in Users |->
                                         IF u \in Active THEN <<"first_test">>
                                         ELSE <<>>]]
           /\ prior = [u \in Users |-> IF u \in Active THEN n ELSE 0]
    /\ last = [op |-> "none", user |-> 0, stale |-> FALSE, abandoned |-> FALSE,
               ret |-> NoCall]
    /\ skipped = [u \in Users |-> {}]
    /\ persisted = [u \in Users |-> 0]
    /\ bank = Questions

\* the bound on the accumulated lists
ExpertBounds ==
    \A u \in DOMAIN active_quizzes :
        \A k \in DOMAIN active_quizzes[u].answers :
            active_quizzes[u].answers[k].kind = "list"
                => Len(active_quizzes[u].answers[k].v) <= MaxSharedLen

\* the quiz_ callbacks of a registered user
NextExpert ==
    \E user_id \in Active :
        \/ (\E topic_id \in Topics : QuizStart(user_id, topic_id)) /\ ExpertBounds'
        \/ (\E b \in AnswerButtons : QuizAnswer(user_id, b[1], b[2])) /\ ExpertBounds'
        \/ (\E b \in SeqButtons : QuizSeq(user_id, b[1], b[2])) /\ ExpertBounds'
        \/ (\E question_id \in ResetButtons : QuizReset(user_id, question_id)) /\ ExpertBounds'
        \/ (\E question_id \in ConfirmButtons : QuizConfirm(user_id, question_id)) /\ ExpertBounds'
        \/ (\E shown \in QuestionIds : QuizSkip(user_id, shown)) /\ ExpertBounds'

SpecExpert == InitExpert /\ [][NextExpert]_vars

----------------------------------------------------------------------------
(* A registered user working through one session while storage works *)

InitLive ==
    /\ bank = Questions
    /\ \E topic_id \in {t \in Topics : QuestionsOfTopic(t) # {}} :
           \E selected_questions \in
                  Sample(QuestionsOfTopic(topic_id),
                         Min(DefaultQuestionCount,
                             Cardinality(QuestionsOfTopic(topic_id)))) :
               \E user_id \in Active :
                   active_quizzes =
                       start_quiz(EmptyDict, user_id, topic_id, selected_questions).aq
    /\ db = [users |-> Active,
             results |-> [u \in Users |-> <<>>],
             achievements |-> [u \in Users |-> <<>>]]
    /\ last = [op |-> "none", user |-> 0, stale |-> FALSE, abandoned |-> FALSE,
               ret |-> NoCall]
    /\ skipped = [u \in Users |-> {}]
    /\ persisted = [u \in Users |-> 0]
    /\ prior = [u \in Users |-> 0]

QuizAnswerOk(user_id, question_id, option_index) ==
    /\ Becomes(quiz_answer(active_quizzes, db, user_id, question_id, option_index, "ok"),
               "quiz_answer", user_id, Stale(user_id, question_id))
    /\ UNCHANGED skipped

QuizConfirmOk(user_id, question_id) ==
    /\ Becomes(quiz_confirm(active_quizzes, db, user_id, question_id, "ok"),
               "quiz_confirm", user_id, Stale(user_id, question_id))
    /\ UNCHANGED skipped

QuizSkipOk(user_id, shown) ==
    /\ Becomes(quiz_skip(active_quizzes, db, user_id, "ok"),
               "quiz_skip", user_id, Stale(user_id, shown))
    /\ skipped' = SkippedAfterSkip(user_id)

\* the buttons of the keyboard of the current question, no new start
NextLive ==
    \E user_id \in Active :
        \/ \E b \in AnswerButtons :
               ~Stale(user_id, b[1]) /\ QuizAnswerOk(user_id, b[1], b[2])
        \/ \E b \in SeqButtons :
               ~Stale(user_id, b[1]) /\ QuizSeq(user_id, b[1], b[2])
        \/ \E question_id \in ResetButtons :
               ~Stale(user_id, question_id) /\ QuizReset(user_id, question_id)
        \/ \E question_id \in ConfirmButtons :
               ~Stale(user_id, question_id) /\ QuizConfirmOk(user_id, question_id)
        \/ \E shown \in QuestionIds :
               ~Stale(user_id, shown) /\ QuizSkipOk(user_id, shown)

\* the commands that answer, confirm or skip the current question, each with
\* its outcome while storage works
AdvancingCommands(aq, d, user_id) ==
    LET current_question == get_current_question(aq, user_id)
    IN  IF current_question = None
        THEN {}
        ELSE {[op |-> "quiz_skip", r |-> quiz_skip(aq, d, user_id, "ok")]}
                 \cup (IF current_question.question_type = "single"
                       THEN {[op |-> "quiz_answer",
                              r |-> quiz_answer(aq, d, user_id, current_question.id,
                                                option_index, "ok")] :
                                option_index \in 0..(current_question.options - 1)}
                       ELSE {[op |-> "quiz_confirm",
                              r |-> quiz_confirm(aq, d, user_id, current_question.id,
                                                 "ok")]})

\* the user answers, confirms or skips the current question
Advance(user_id) ==
    \E c \in AdvancingCommands(active_quizzes, db, user_id) :
        /\ Becomes(c.r, c.op, user_id, FALSE)
        /\ skipped' = IF c.op = "quiz_skip" THEN SkippedAfterSkip(user_id) ELSE skipped

\* a user who keeps answering or skipping
SpecLive ==
    InitLive /\ [][NextLive]_vars /\ \A user_id \in Active : WF_vars(Advance(user_id))

----------------------------------------------------------------------------
(* Properties *)

\* the payload of complete_quiz when the last command completed the quiz
Completed ==
    \/ /\ last.op \in {"quiz_answer", "quiz_confirm", "quiz_skip",
                       "submit_answer", "skip_question"}
       /\ IsSuccess(last.ret)
       /\ last.ret.is_completed
       /\ IsSuccess(last.ret.result)
    \/ /\ last.op = "complete_quiz"
       /\ IsSuccess(last.ret)

CompletionPayload == IF last.op = "complete_quiz" THEN last.ret ELSE last.ret.result

\* C1: every session in the store has 0 <= current_question <= len(questions)
\* after any sequence of start, answer, toggle, append, reset, confirm and skip.
CurrentQuestionInRange ==
    \A u \in DOMAIN active_quizzes :
        /\ 0 <= active_quizzes[u].current_question
        /\ active_quizzes[u].current_question <= Len(active_quizzes[u].questions)

\* C1 witness: a skip arrived for a stored session that was already exhausted.
SkipOnExhaustedSession ==
    /\ last.op = "quiz_skip"
    /\ last.ret = Failure("questions_finished")
    /\ last.user \in DOMAIN active_quizzes
    /\ active_quizzes[last.user].current_question
           = Len(active_quizzes[last.user].questions)

\* C2: at completion every question the user skipped is scored incorrect,
\* whatever toggles or sequence picks were accumulated for it before the skip.
SkippedScoredIncorrect ==
    Completed =>
        \A i \in 1..Len(CompletionPayload.question_results) :
            CompletionPayload.question_results[i].question \in skipped[last.user]
                => ~CompletionPayload.question_results[i].is_correct

\* C3: submit_answer with a question_id that is not the id of the question at
\* current_question is rejected: it fails and the session and the stored rows
\* stay as they were.
StaleSubmitRejected ==
    [][(last'.op = "submit_answer" /\ last'.stale)
          => /\ IsFailure(last'.ret)
             /\ active_quizzes' = active_quizzes
             /\ db' = db]_vars

\* C4: a skip pressed on the keyboard of a question that is no longer the
\* current one leaves current_question and answers of the session unchanged.
StaleSkipRejected ==
    [][(last'.op = "quiz_skip" /\ last'.stale)
          => active_quizzes' = active_quizzes]_vars

\* C5: a quiz_answer_, quiz_seq_, quiz_reset_ or quiz_confirm_ callback whose
\* question id is not the id of the current question changes neither the
\* session nor the stored rows.
StaleCallbackIsNoOp ==
    [][(/\ last'.op \in {"quiz_answer", "quiz_seq", "quiz_reset", "quiz_confirm"}
        /\ last'.stale)
          => /\ active_quizzes' = active_quizzes
             /\ db' = db]_vars

\* C5 witness: such a callback arrived while another question of a session that
\* already holds answers was current.
StaleCallbackDuringSession ==
    /\ last.op \in {"quiz_answer", "quiz_seq", "quiz_reset", "quiz_confirm"}
    /\ last.stale
    /\ get_current_question(active_quizzes, last.user) # None
    /\ DOMAIN active_quizzes[last.user].answers # {}

\* the achievements column of user_id after check_achievements ran on the
\* rows of d_after with the achievements of d_before
GrantedTogether(d_before, d_after, user_id) ==
    check_achievements([d_after EXCEPT !.achievements = d_before.achievements],
                       user_id,
                       d_after.results[user_id][Len(d_after.results[user_id])].percentage
                      ).db.achievements[user_id]

\* C6: persistence at completion is atomic: an operation commits a TestResult
\* together with every achievement that completion grants, or commits neither.
AtomicCompletion ==
    [][\A u \in Users :
          /\ db'.results[u] # db.results[u]
                => db'.achievements[u] = GrantedTogether(db, db', u)
          /\ db'.achievements[u] # db.achievements[u]
                => db'.results[u] # db.results[u]]_vars

\* C7 as claimed: no session whose questions are exhausted (is_completed) is
\* still in the store.
ExhaustedSessionLeftStore ==
    \A u \in DOMAIN active_quizzes : ~active_quizzes[u].is_completed

\* C7 amended: once complete_quiz has succeeded for a user the session is no
\* longer in the store and get_current_question returns None; and for a user
\* with no session in the store submit_answer and skip_question fail with the
\* no-active-test result and change nothing.
CompletedSessionRemoved ==
    /\ [](Completed =>
            /\ last.user \notin DOMAIN active_quizzes
            /\ get_current_question(active_quizzes, last.user) = None)
    /\ [][(/\ last'.op \in {"submit_answer", "skip_question"}
           /\ last'.user \notin DOMAIN active_quizzes)
             => /\ last'.ret = Failure("no_active_test")
                /\ active_quizzes' = active_quizzes
                /\ db' = db]_vars

\* C7 witness: after a completion was persisted for the user, a submit or skip
\* arrived and got the no-active-test result.
SubmitAfterCompletion ==
    /\ last.op \in {"submit_answer", "skip_question"}
    /\ last.ret = Failure("no_active_test")
    /\ Len(db.results[last.user]) > 0
    /\ last.user \notin DOMAIN active_quizzes

\* C8: when the complete_quiz run by an answer, confirm or skip raises a
\* storage error before the TestResult is committed, the session stays in the
\* store with the same questions, the answers recorded before unchanged and
\* nothing but the answer of the question just passed added.
PersistFailureKeepsSession ==
    [][(/\ last'.op \in {"quiz_answer", "quiz_confirm", "quiz_skip"}
        /\ last'.ret = Raised("StorageError")
        /\ db'.results = db.results)
          => LET u == last'.user
                 key == str(get_current_question(active_quizzes, u).id)
             IN  /\ u \in DOMAIN active_quizzes'
                 /\ active_quizzes'[u].questions = active_quizzes[u].questions
                 /\ active_quizzes'[u].topic_id = active_quizzes[u].topic_id
                 /\ DOMAIN active_quizzes'[u].answers \subseteq
                        DOMAIN active_quizzes[u].answers \cup {key}
                 /\ \A k \in DOMAIN active_quizzes[u].answers :
                        /\ k \in DOMAIN active_quizzes'[u].answers
                        /\ (k # key \/ last'.op # "quiz_answer")
                              => active_quizzes'[u].answers[k]
                                     = active_quizzes[u].answers[k]]_vars

\* C8 witness: a registered user's completion raised before any TestResult was
\* committed and the exhausted session, with its answers, is in the store.
SessionKeptAfterPersistFailure ==
    /\ last.op \in {"quiz_answer", "quiz_confirm", "quiz_skip"}
    /\ last.ret = Raised("StorageError")
    /\ last.user \in db.users
    /\ db.results[last.user] = <<>>
    /\ last.user \in DOMAIN active_quizzes
    /\ active_quizzes[last.user].is_completed
    /\ DOMAIN active_quizzes[last.user].answers # {}

\* C9: a session whose questions were all skipped completes on the last skip
\* with correct_count = 0 and percentage = 0.
AllSkippedScoresZero ==
    (/\ Completed
     /\ last.op = "quiz_skip"
     /\ \A i \in 1..Len(CompletionPayload.question_results) :
            CompletionPayload.question_results[i].question \in skipped[last.user])
        => /\ CompletionPayload.correct_count = 0
           /\ CompletionPayload.percentage = 0

\* C9, the parts that hold: a successful submit_answer or skip_question moves
\* current_question forward by exactly 1, and it runs complete_quiz exactly
\* when the new index equals len(questions).
AdvanceByOneCompleteAtEnd ==
    [][(/\ last'.op \in {"quiz_answer", "quiz_confirm", "quiz_skip"}
        /\ IsSuccess(last'.ret))
          => LET u == last'.user
                 before == active_quizzes[u]
                 ended == before.current_question + 1 = Len(before.questions)
             IN  /\ last'.ret.is_completed = ended
                 /\ u \in DOMAIN active_quizzes'
                       => active_quizzes'[u].current_question
                              = before.current_question + 1
                 /\ u \notin DOMAIN active_quizzes'
                       => ended /\ IsSuccess(last'.ret.result)]_vars

\* C10: no user holds two achievements of the same name, however many
\* completions ran and even when a rule's condition is true again.
NoAchievementTwice ==
    \A u \in Users :
        \A i, j \in 1..Len(db.achievements[u]) :
            i # j => db.achievements[u][i] # db.achievements[u][j]

\* C10 witness: a user completed a second quiz with 100%, so that the rules
\* "first_test" and "perfect_score" held again for a user who holds both.
SecondPerfectCompletion ==
    /\ Completed
    /\ Len(db.results[last.user]) >= 2
    /\ \A i \in 1..Len(db.results[last.user]) :
           db.results[last.user][i].percentage = 1000
    /\ \E i, j \in 1..Len(db.achievements[last.user]) :
           /\ db.achievements[last.user][i] = "first_test"
           /\ db.achievements[last.user][j] = "perfect_score"

\* the achievements an operation committed for user_id
Granted(d_before, d_after, user_id) ==
    SubSeq(d_after.achievements[user_id],
           Len(d_before.achievements[user_id]) + 1,
           Len(d_after.achievements[user_id]))

\* result["new_achievements"] as show_test_results reads it: absent is empty
ReportedAchievements(result) ==
    IF "new_achievements" \in DOMAIN result THEN result.new_achievements ELSE <<>>

\* C11: the payload complete_quiz returns lists exactly the achievements that
\* completion granted.
PayloadListsGranted ==
    [][Completed' =>
          ReportedAchievements(CompletionPayload') = Granted(db, db', last'.user)]_vars

\* C12: through the handler commands each started session yields at most one
\* persisted TestResult, a TestResult is persisted only for a session whose
\* current_question has reached len(questions), and no operation modifies a
\* TestResult that is already persisted.
OneResultPerExhaustedSession ==
    /\ [](\A u \in Users : persisted[u] <= 1)
    /\ [][\A u \in Users :
             /\ Len(db'.results[u]) >= Len(db.results[u])
             /\ SubSeq(db'.results[u], 1, Len(db.results[u])) = db.results[u]
             /\ db'.results[u] # db.results[u]
                   => /\ u \in DOMAIN active_quizzes
                      /\ active_quizzes[u].current_question + 1
                             = Len(active_quizzes[u].questions)
                      /\ u \in DOMAIN active_quizzes'
                            => active_quizzes'[u].current_question
                                   = Len(active_quizzes'[u].questions)]_vars

\* C12 witness: a TestResult was persisted for a session that stayed in the
\* store, exhausted, and a further answer or skip command arrived for it.
CommandAfterPersistedResult ==
    /\ last.op \in {"quiz_answer", "quiz_confirm", "quiz_skip"}
    /\ last.user \in DOMAIN active_quizzes
    /\ active_quizzes[last.user].is_completed
    /\ persisted[last.user] = 1
    /\ ~IsRaised(last.ret)

\* C13: a successful start_quiz replaces the session the user has: the stored
\* session is the new one, with current_question = 0, no answers and
\* is_completed = false, and no TestResult or Achievement is persisted for the
\* abandoned session.
StartReplacesSession ==
    [][(last'.op \in StartOps /\ IsSuccess(last'.ret))
          => LET u == last'.user
             IN  /\ u \in DOMAIN active_quizzes'
                 /\ active_quizzes'[u] = last'.ret.quiz_data
                 /\ active_quizzes'[u].current_question = 0
                 /\ active_quizzes'[u].answers = EmptyDict
                 /\ ~active_quizzes'[u].is_completed
                 /\ db' = db]_vars

\* C13 witness: a start succeeded for a user whose session held answers.
StartOverAnsweredSession ==
    /\ last.op \in StartOps
    /\ IsSuccess(last.ret)
    /\ last.abandoned

\* the topics no Question row refers to
EmptyTopics == {t \in Topics : \A i \in 1..Len(Questions) : Questions[i].topic_id # t}

\* C14: start_quiz on a topic with no questions returns a failure result,
\* creates no session and leaves the session the user already has, and the
\* stored rows, unchanged (when the query for the questions itself raises,
\* start_quiz raises instead of returning).
EmptyTopicStartFails ==
    [][\A u \in Active, t \in EmptyTopics :
          (/\ last'.op = "start_quiz"
           /\ \E question_count \in QuestionCounts :
                  StartQuiz(u, t, question_count)
           /\ ~IsRaised(last'.ret))
             => /\ IsFailure(last'.ret)
                /\ active_quizzes' = active_quizzes
                /\ db' = db]_vars

\* C14 witness: the start on an empty topic failed for a user whose session
\* holds answers.
EmptyTopicStartOverSession ==
    /\ last.op = "start_quiz"
    /\ last.ret = Failure("no_questions")
    /\ last.abandoned
    /\ last.user \in DOMAIN active_quizzes
    /\ active_quizzes[last.user].answers # EmptyDict

\* len(questions) of the query of start_quiz for topic_id
Available(topic_id) ==
    Cardinality({i \in 1..Len(Questions) : Questions[i].topic_id = topic_id})

\* C15: for a topic with available >= 1 questions start_quiz(user, topic,
\* question_count) creates a session with exactly min(question_count,
\* available) questions, with pairwise distinct ids, all of that topic.
SampleSizeDistinctOfTopic ==
    [][\A u \in Active, t \in Topics \ EmptyTopics, question_count \in QuestionCounts :
          (/\ last'.op = "start_quiz"
           /\ StartQuiz(u, t, question_count)
           /\ ~IsRaised(last'.ret))
             => /\ IsSuccess(last'.ret)
                /\ u \in DOMAIN active_quizzes'
                /\ LET questions == active_quizzes'[u].questions
                   IN  /\ Len(questions) = Min(question_count, Available(t))
                       /\ \A i, j \in 1..Len(questions) :
                              i # j => questions[i].id # questions[j].id
                       /\ \A i \in 1..Len(questions) :
                              \E k \in 1..Len(Questions) :
                                  /\ Questions[k].id = questions[i].id
                                  /\ Questions[k].topic_id = t]_vars

\* C15 witness: start_quiz was asked for more questions than the topic has and
\* the session holds all of them, more than one.
StartedWithAllOfTopic ==
    /\ last.op = "start_quiz"
    /\ IsSuccess(last.ret)
    /\ last.user \in DOMAIN active_quizzes
    /\ Len(active_quizzes[last.user].questions) > 1
    /\ Len(active_quizzes[last.user].questions)
           = Available(active_quizzes[last.user].topic_id)
    /\ Available(active_quizzes[last.user].topic_id) < DefaultQuestionCount

\* C16: complete_quiz, submit_answer and skip_question for a user who has no
\* session in the store each return the no-active-test failure, create no
\* session and persist no TestResult or Achievement.
NoSessionFails ==
    [][(/\ last'.op \in {"complete_quiz", "submit_answer", "skip_question"}
        /\ last'.user \notin DOMAIN active_quizzes)
          => /\ IsFailure(last'.ret)
             /\ last'.ret.message = "no_active_test"
             /\ last'.user \notin DOMAIN active_quizzes'
             /\ active_quizzes' = active_quizzes
             /\ db' = db]_vars

\* C16 witness: complete_quiz was called again for a registered user whose
\* session had completed and left the store.
CompleteAfterCompletion ==
    /\ last.op = "complete_quiz"
    /\ last.ret = Failure("no_active_test")
    /\ last.user \in db.users
    /\ last.user \notin DOMAIN active_quizzes
    /\ persisted[last.user] = 1

\* the Question row with the given id
QuestionRow(question_id) ==
    CHOOSE q \in {Questions[i] : i \in 1..Len(Questions)} : q.id = question_id

\* int(x) for an option index kept as an int or as the str of one
IndexOf(x) == IF x.kind = "int" THEN x.v ELSE CHOOSE i \in 0..9 : str(i) = x.v

\* the two lists name the same option indexes in the same order
SameOrder(s, t) ==
    /\ Len(s) = Len(t)
    /\ \A i \in 1..Len(s) : IndexOf(s[i]) = IndexOf(t[i])

\* C17: a sequence question whose options the user picked with quiz_seq_ in
\* exactly the correct order and then confirmed is scored correct at
\* completion, and a confirmed sequence that differs from the correct order in
\* any position is scored incorrect.
ConfirmedSequenceScoredByOrder ==
    Completed =>
        \A i \in 1..Len(CompletionPayload.question_results) :
            LET r == CompletionPayload.question_results[i]
            IN  (/\ QuestionRow(r.question).question_type = "sequence"
                 /\ r.question \notin skipped[last.user]
                 /\ r.user_answer # None)
                    => r.is_correct = SameOrder(r.user_answer.v, r.correct_answer)

\* the option indexes a list names
IndexSet(s) == {IndexOf(s[i]) : i \in 1..Len(s)}

\* C18: a multiple-choice question is scored correct at completion if and only
\* if the set of confirmed indexes equals the set of correct indexes; a
\* confirmed set with a missing or an extra index is scored incorrect.
ConfirmedSetScoredExactly ==
    Completed =>
        \A i \in 1..Len(CompletionPayload.question_results) :
            LET r == CompletionPayload.question_results[i]
            IN  (/\ QuestionRow(r.question).question_type = "multiple"
                 /\ r.question \notin skipped[last.user]
                 /\ r.user_answer # None)
                    => r.is_correct = (IndexSet(r.user_answer.v) = IndexSet(r.correct_answer))

\* C18 witness: a confirmed set that holds every correct index and one extra
\* index was scored incorrect.
ExtraIndexScoredIncorrect ==
    /\ Completed
    /\ \E i \in 1..Len(CompletionPayload.question_results) :
           LET r == CompletionPayload.question_results[i]
           IN  /\ QuestionRow(r.question).question_type = "multiple"
               /\ r.question \notin skipped[last.user]
               /\ r.user_answer # None
               /\ IndexSet(r.correct_answer) \subseteq IndexSet(r.user_answer.v)
               /\ IndexSet(r.correct_answer) # IndexSet(r.user_answer.v)
               /\ ~r.is_correct

\* C19: a single-choice question is scored correct at completion if and only
\* if the submitted option index equals the one correct index of the question.
SingleScoredByIndex ==
    Completed =>
        \A i \in 1..Len(CompletionPayload.question_results) :
            LET r == CompletionPayload.question_results[i]
            IN  (/\ QuestionRow(r.question).question_type = "single"
                 /\ r.user_answer # None)
                    => r.is_correct = (IndexOf(r.user_answer) = IndexOf(r.correct_answer[1]))

\* C19 witness: a single-choice answer that picked an option other than the
\* first was scored correct.
SingleAnswerScoredCorrect ==
    /\ Completed
    /\ \E i \in 1..Len(CompletionPayload.question_results) :
           LET r == CompletionPayload.question_results[i]
           IN  /\ QuestionRow(r.question).question_type = "single"
               /\ r.user_answer # None
               /\ r.is_correct
               /\ IndexOf(r.user_answer) > 0

\* |a|
Abs(a) == IF a < 0 THEN -a ELSE a

\* C20: the percentage complete_quiz computes is correct_count /
\* total_questions x 100 rounded to one decimal (7 correct of 10 gives 70.0),
\* it is 0 when total_questions is 0, and correct_count never exceeds
\* total_questions.
PercentageRoundedToTenth ==
    (Completed /\ last.op = "complete_quiz") =>
        LET correct_count == last.ret.correct_count
            total_questions == last.ret.total_questions
            tenths == last.ret.percentage
        IN  /\ total_questions = Len(last.ret.question_results)
            /\ correct_count =
                   Cardinality({i \in 1..total_questions :
                                   last.ret.question_results[i].is_correct})
            /\ correct_count <= total_questions
            /\ total_questions = 0 => tenths = 0
            /\ total_questions > 0 =>
                   2 * Abs(tenths * total_questions - correct_count * 1000)
                       <= total_questions
            /\ (correct_count = 7 /\ total_questions = 10) => tenths = 700

\* C20 witness: a session of 10 questions completed with 7 correct and 70.0.
SevenOfTen ==
    /\ Completed
    /\ last.op = "complete_quiz"
    /\ last.ret.correct_count = 7
    /\ last.ret.total_questions = 10
    /\ last.ret.percentage = 700

\* the option indexes accumulated for question_id in the session of user_id
Selection(aq, user_id, question_id) ==
    IndexSet(Get(aq[user_id].answers, str(question_id), ListV(<<>>)).v)

\* the current question of user_id is of the given type
CurrentIs(aq, user_id, question_type) ==
    /\ get_current_question(aq, user_id) # None
    /\ get_current_question(aq, user_id).question_type = question_type

\* no element occurs twice in the list
NoRepeats(s) == \A i, j \in 1..Len(s) : i # j => ~ScalarEq(s[i], s[j])

\* C21: for the current multiple-choice question a toggle of option i adds i
\* to the accumulated selection if absent and removes it if present and never
\* changes current_question; toggling the same option twice restores the
\* selection; the accumulated selection never holds an index twice.
ToggleAddsOrRemoves ==
    /\ [][(/\ last'.op = "quiz_answer"
           /\ ~last'.stale
           /\ CurrentIs(active_quizzes, last'.user, "multiple"))
             => \A b \in AnswerButtons :
                   (/\ IsCurrent(active_quizzes, last'.user, b[1])
                    /\ active_quizzes' =
                           quiz_answer(active_quizzes, db, last'.user,
                                       b[1], b[2], "ok").aq)
                     => LET u == last'.user
                            before == Selection(active_quizzes, u, b[1])
                        IN  /\ u \in DOMAIN active_quizzes'
                            /\ Selection(active_quizzes', u, b[1]) =
                                   IF b[2] \in before THEN before \ {b[2]}
                                   ELSE before \cup {b[2]}
                            /\ active_quizzes'[u].current_question
                                   = active_quizzes[u].current_question]_vars
    /\ [](\A u \in DOMAIN active_quizzes :
             CurrentIs(active_quizzes, u, "multiple") =>
                 LET q == get_current_question(active_quizzes, u)
                 IN  /\ NoRepeats(Get(active_quizzes[u].answers, str(q.id),
                                      ListV(<<>>)).v)
                     /\ \A i \in 0..(q.options - 1) :
                            Selection(ToggleOption(ToggleOption(active_quizzes, u, q.id, i),
                                                   u, q.id, i), u, q.id)
                                = Selection(active_quizzes, u, q.id))

\* C21 witness: a toggle removed the only selected option of the current
\* multiple-choice question.
ToggleRemovedOption ==
    /\ last.op = "quiz_answer"
    /\ ~last.stale
    /\ CurrentIs(active_quizzes, last.user, "multiple")
    /\ LET key == str(get_current_question(active_quizzes, last.user).id)
       IN  /\ key \in DOMAIN active_quizzes[last.user].answers
           /\ active_quizzes[last.user].answers[key] = ListV(<<>>)

\* C22: the accumulated list of a sequence question never holds the same option
\* index twice: a quiz_seq_ append of an index that is already in the list adds
\* nothing, whatever appends and resets came before.
SequenceHasNoRepeats ==
    \A u \in DOMAIN active_quizzes :
        \A i \in 1..Len(active_quizzes[u].questions) :
            LET q == active_quizzes[u].questions[i]
            IN  q.question_type = "sequence" =>
                    NoRepeats(Get(active_quizzes[u].answers, str(q.id), ListV(<<>>)).v)

\* C23: an operation performed for one user (start, answer, toggle, append,
\* reset, confirm, skip, completion) leaves the stored session of every other
\* user as it was.
OtherSessionsUnchanged ==
    [][\A b \in Users :
          b # last'.user =>
              /\ (b \in DOMAIN active_quizzes') = (b \in DOMAIN active_quizzes)
              /\ b \in DOMAIN active_quizzes
                    => active_quizzes'[b] = active_quizzes[b]]_vars

\* C23 witness: the completion of one user was persisted and removed that
\* user's session while another user's session, holding answers, is in the
\* store.
CompletedBesideOtherSession ==
    /\ Completed
    /\ last.user \notin DOMAIN active_quizzes
    /\ \E b \in DOMAIN active_quizzes :
           /\ b # last.user
           /\ active_quizzes[b].answers # EmptyDict

\* C24: from start_quiz until the session is removed its questions (ids,
\* options, correct answers, types, order) and its topic_id never change,
\* whatever answer operations run and whatever edits are made to the Question
\* rows in storage.
SessionQuestionsFrozen ==
    [][\A u \in DOMAIN active_quizzes \cap DOMAIN active_quizzes' :
          ~(last'.op \in StartOps /\ last'.user = u /\ IsSuccess(last'.ret))
              => /\ active_quizzes'[u].questions = active_quizzes[u].questions
                 /\ active_quizzes'[u].topic_id = active_quizzes[u].topic_id]_vars

\* C24 witness: a row was edited in storage while a session that holds a
\* snapshot of it, and answers, was in the store.
EditedUnderSession ==
    /\ last.op = "edit_question"
    /\ \E u \in DOMAIN active_quizzes :
           /\ active_quizzes[u].answers # EmptyDict
           /\ \E k \in 1..Len(active_quizzes[u].questions) :
                  \E i \in 1..Len(bank) :
                      /\ bank[i].id = active_quizzes[u].questions[k].id
                      /\ bank[i].correct_answer
                             # active_quizzes[u].questions[k].correct_answer

\* the outcomes of every command other than a start that the user can send
\* while storage works
HandlerCommands(aq, d, user_id) ==
    {quiz_answer(aq, d, user_id, b[1], b[2], "ok") : b \in AnswerButtons}
        \cup {quiz_seq(aq, d, user_id, b[1], b[2]) : b \in SeqButtons}
        \cup {quiz_reset(aq, d, user_id, question_id) : question_id \in ResetButtons}
        \cup {quiz_confirm(aq, d, user_id, question_id, "ok") :
                 question_id \in ConfirmButtons}
        \cup {quiz_skip(aq, d, user_id, "ok")}

RECURSIVE ReachableByCommands(_, _)
\* the stores and storage contents any sequence of such commands leads to
ReachableByCommands(S, user_id) ==
    LET after == S \cup {[aq |-> r.aq, db |-> r.db] :
                            r \in UNION {HandlerCommands(s.aq, s.db, user_id) : s \in S}}
    IN  IF after = S THEN S ELSE ReachableByCommands(after, user_id)

\* C25: after a completion of a registered user's session has failed with a
\* storage error, some sequence of handler commands other than a start, sent
\* while storage works, leads to a persisted TestResult and the removal of
\* the session.
FailedCompletionCanBeFinished ==
    \A u \in Active :
        (/\ last.user = u
         /\ last.op \notin StartOps
         /\ last.ret = Raised("StorageError")
         /\ u \in db.users
         /\ u \in DOMAIN active_quizzes
         /\ active_quizzes[u].is_completed)
            => \E s \in ReachableByCommands({[aq |-> active_quizzes, db |-> db]}, u) :
                   /\ u \notin DOMAIN s.aq
                   /\ Len(s.db.results[u]) > Len(db.results[u])

\* the session of user_id was put in the store by the step
StartedBy(user_id) ==
    /\ last'.op \in StartOps
    /\ last'.user = user_id
    /\ IsSuccess(last'.ret)

\* C26: in every session held in the store is_completed implies
\* current_question = len(questions); a started session has is_completed
\* false, is_completed becomes true only in the answer, confirm or skip that
\* advances current_question to len(questions), and once true it stays true
\* for that session.
CompletedOnlyAtExhaustion ==
    /\ [](\A u \in DOMAIN active_quizzes :
             active_quizzes[u].is_completed =>
                 active_quizzes[u].current_question = Len(active_quizzes[u].questions))
    /\ [][\A u \in DOMAIN active_quizzes' :
             IF StartedBy(u)
             THEN ~active_quizzes'[u].is_completed
             ELSE /\ u \in DOMAIN active_quizzes
                  /\ active_quizzes[u].is_completed => active_quizzes'[u].is_completed
                  /\ (~active_quizzes[u].is_completed /\ active_quizzes'[u].is_completed)
                         => /\ last'.op \in {"quiz_answer", "quiz_confirm", "quiz_skip"}
                            /\ active_quizzes'[u].current_question
                                   = active_quizzes[u].current_question + 1
                            /\ active_quizzes'[u].current_question
                                   = Len(active_quizzes'[u].questions)]_vars

\* C26 witness: a session whose completion failed is still in the store,
\* completed and exhausted, after a further skip command was refused.
CompletedSessionAfterRefusedSkip ==
    /\ last.op = "quiz_skip"
    /\ IsFailure(last.ret)
    /\ last.user \in DOMAIN active_quizzes
    /\ active_quizzes[last.user].is_completed
    /\ Len(active_quizzes[last.user].questions) > 1

\* C27: a confirm on the current sequence question is accepted whatever the
\* length of the accumulated list, shorter than the number of options and
\* empty included: the list is recorded as the answer of the question (in the
\* session, or in the completion payload when the confirm completed the quiz)
\* and current_question advances by 1.
ConfirmAcceptsAnyLength ==
    [][(/\ last'.op = "quiz_confirm"
        /\ ~last'.stale
        /\ CurrentIs(active_quizzes, last'.user, "sequence"))
          => LET u == last'.user
                 q == get_current_question(active_quizzes, u)
                 accumulated == Get(active_quizzes[u].answers, str(q.id), ListV(<<>>))
             IN  IF u \in DOMAIN active_quizzes'
                 THEN /\ active_quizzes'[u].current_question
                             = active_quizzes[u].current_question + 1
                      /\ Get(active_quizzes'[u].answers, str(q.id), None) = accumulated
                 ELSE /\ Completed'
                      /\ active_quizzes[u].current_question + 1
                             = Len(active_quizzes[u].questions)
                      /\ \E i \in 1..Len(CompletionPayload'.question_results) :
                             /\ CompletionPayload'.question_results[i].question = q.id
                             /\ CompletionPayload'.question_results[i].user_answer
                                    = accumulated]_vars

\* C27 witness: a confirm with nothing accumulated completed a quiz whose last
\* question is a sequence question, and the empty list is its answer.
EmptySequenceConfirmed ==
    /\ last.op = "quiz_confirm"
    /\ ~last.stale
    /\ Completed
    /\ \E i \in 1..Len(CompletionPayload.question_results) :
           /\ QuestionRow(CompletionPayload.question_results[i].question).question_type
                  = "sequence"
           /\ CompletionPayload.question_results[i].user_answer = ListV(<<>>)

\* user_id holds the ten-tests achievement
HoldsExpert(d, user_id) ==
    \E i \in 1..Len(d.achievements[user_id]) :
        d.achievements[user_id][i] = "history_expert"

\* C28: the ten-tests achievement is granted in exactly the completion that
\* brings the user's number of persisted TestResults to 10 (the row of the
\* session just completed counted), and in no other completion.
ExpertGrantedAtTenth ==
    [][\A u \in Active :
          LET tenth == /\ Len(db.results[u]) < ExpertTests
                       /\ Len(db'.results[u]) = ExpertTests
          IN  /\ tenth => HoldsExpert(db', u)
              /\ (~HoldsExpert(db, u) /\ HoldsExpert(db', u)) => tenth]_vars

\* C28, the part that holds: a completion that succeeds grants the ten-tests
\* achievement exactly when the user does not hold it and has 10 or more
\* TestResults, the new row counted.
ExpertGrantedWhenTenReached ==
    [][\A u \in Active :
          (Completed' /\ last'.user = u)
              => /\ Len(db'.results[u]) = Len(db.results[u]) + 1
                 /\ (~HoldsExpert(db, u) /\ HoldsExpert(db', u))
                        <=> (~HoldsExpert(db, u) /\ Len(db'.results[u]) >= ExpertTests)]_vars

\* C29: for a user with no User row start_quiz, submit_answer and
\* skip_question do not fail for want of the row and leave storage
\* unchanged; a submit or skip that does not exhaust the questions succeeds,
\* and one that exhausts them returns the user-not-found failure of the
\* completion, persists no TestResult and no Achievement and leaves the
\* session in the store with current_question = len(questions) and
\* is_completed true.
UnknownUserCompletionFails ==
    [][\A u \in Active :
          (/\ last'.user = u
           /\ last'.op \in {"start_quiz", "submit_answer", "skip_question"}
           /\ u \notin db.users)
            => /\ db' = db
               /\ last'.ret # Failure("user_not_found")
               /\ (last'.op = "start_quiz" /\ IsFailure(last'.ret))
                     => last'.ret = Failure("no_questions")
               /\ (/\ last'.op # "start_quiz"
                   /\ get_current_question(active_quizzes, u) # None
                   /\ ~IsRaised(last'.ret))
                     => LET before == active_quizzes[u]
                        IN  /\ IsSuccess(last'.ret)
                            /\ u \in DOMAIN active_quizzes'
                            /\ active_quizzes'[u].current_question
                                   = before.current_question + 1
                            /\ IF before.current_question + 1 < Len(before.questions)
                               THEN /\ ~last'.ret.is_completed
                                    /\ ~active_quizzes'[u].is_completed
                               ELSE /\ last'.ret.is_completed
                                    /\ last'.ret.result = Failure("user_not_found")
                                    /\ active_quizzes'[u].is_completed
                                    /\ active_quizzes'[u].current_question
                                           = Len(active_quizzes'[u].questions)]_vars

\* C29 witness: a user with no User row answered or skipped through a session
\* of two questions; the completion returned user-not-found, nothing was
\* persisted and the exhausted session is in the store.
UnknownUserSessionExhausted ==
    /\ last.op \in {"submit_answer", "skip_question"}
    /\ last.user \notin db.users
    /\ IsSuccess(last.ret)
    /\ last.ret.is_completed
    /\ last.ret.result = Failure("user_not_found")
    /\ db.results[last.user] = <<>>
    /\ db.achievements[last.user] = <<>>
    /\ last.user \in DOMAIN active_quizzes
    /\ active_quizzes[last.user].is_completed
    /\ Len(active_quizzes[last.user].questions) = 2
    /\ active_quizzes[last.user].current_question = 2

\* C30: current_question counts the successful submit and skip operations of
\* a session: it is 0 at the start, each successful answer, confirm or skip
\* adds exactly 1, no toggle, append or reset changes it, and the session is
\* exhausted exactly when it reaches len(questions), so a session of n
\* questions is exhausted after exactly n of them; for a registered user with
\* working storage who keeps answering or skipping the session eventually
\* completes and is removed from the store.
ExhaustedAfterEveryQuestion ==
    /\ [][\A u \in DOMAIN active_quizzes :
             LET before == active_quizzes[u]
                 advanced == /\ last'.op \in {"quiz_answer", "quiz_confirm", "quiz_skip"}
                             /\ IsSuccess(last'.ret)
             IN  /\ (u \in DOMAIN active_quizzes' /\ ~advanced)
                       => active_quizzes'[u].current_question = before.current_question
                 /\ (u \in DOMAIN active_quizzes' /\ advanced)
                       => /\ active_quizzes'[u].current_question
                                 = before.current_question + 1
                          /\ active_quizzes'[u].current_question
                                 < Len(before.questions)
                 /\ u \notin DOMAIN active_quizzes'
                       => /\ advanced
                          /\ Completed'
                          /\ before.current_question + 1 = Len(before.questions)]_vars
    /\ \A u \in Active :
           (u \in DOMAIN active_quizzes)
               ~> (u \notin DOMAIN active_quizzes /\ Len(db.results[u]) = 1)

\* C30 witness: the user toggled options of the second question of a session
\* of two questions; the session is still at that question.
ToggledWithoutAdvancing ==
    \E u \in DOMAIN active_quizzes :
        /\ last.op = "quiz_answer"
        /\ ~last.stale
        /\ last.ret = NoCall
        /\ active_quizzes[u].current_question = 1
        /\ Len(active_quizzes[u].questions) = 2
        /\ CurrentIs(active_quizzes, u, "multiple")
        /\ Selection(active_quizzes, u, get_current_question(active_quizzes, u).id) # {}

====
